---- MODULE Spec2Model ----
(***************************************************************************)
(* Model of the synthetic traffic generator and of the alert receiver:     *)
(*   src/generator/traffic_simulator.py  (TrafficSimulator)                *)
(*   src/generator/log_generator.py      (file-logging generator)          *)
(*   src/alert_webhook.py                (AlertHandler)                    *)
(*                                                                         *)
(* Time:  one unit of `clock' is one second; `clock' is what time.time()   *)
(*        returns, counted from the construction of the simulator, and it  *)
(*        never decreases.                                                 *)
(* Delay: the value handed to time.sleep, in milliseconds.                 *)
(* Rate:  base_request_rate in thousandths of a request per second         *)
(*        (1000 is the 1.0 of the source).                                 *)
(***************************************************************************)
EXTENDS Integers, Sequences, FiniteSets, TLC

\* ------------------------------------------------------------------ bounds
\* Last clock reading the model explores.
MaxTime == 56
\* Longest time (s) that passes between two clock readings inside one call.
MaxLag == 1
\* Longest time (s) the environment lets pass in one step between calls.
MaxStep == 3

\* Samples the file-logging generator emits before the model stops it.
MaxSamples == 3
\* Requests the alert server accepts before the model stops it.
MaxRequests == 2
\* random.randint(a, b) is sampled at a, at b and every LatencyStep from a.
LatencyStep == 2500
\* random.uniform(a, b) is sampled at a, at b and at the multiples of
\* JitterStep (ms) between them.
JitterStep == 300

\* ------------------------------------------------ TrafficPattern (l.29-34)
NORMAL == "normal"
SPIKE == "spike"
OUTAGE == "outage"
SLOW_RESPONSE == "slow_response"
HIGH_ERROR_RATE == "high_error_rate"

TrafficPattern == {NORMAL, SPIKE, OUTAGE, SLOW_RESPONSE, HIGH_ERROR_RATE}

\* Default of change_pattern's duration parameter.
DefaultDuration == 60
\* Minimum calm period of the spontaneous trigger.
CalmPeriod == 30

\* Mutant of the table: the durations of Spike and Outage exchanged.
incident_patterns_swapped ==
    << <<SPIKE, 20>>, <<OUTAGE, 30>>, <<SLOW_RESPONSE, 40>>, <<HIGH_ERROR_RATE, 35>> >>

\* The table of the spontaneous trigger, in the order of the source.
incident_patterns ==
    << <<SPIKE, 30>>, <<OUTAGE, 20>>, <<SLOW_RESPONSE, 40>>, <<HIGH_ERROR_RATE, 35>> >>

\* Durations a caller of change_pattern passes: 0, Outage's table entry and the
\* default.
Durations == {0, incident_patterns[2][2], DefaultDuration}

VARIABLES
    clock,               \* time.time()
    influx_client,       \* the InfluxDB client: "None" or "client"
    current_pattern,     \* self.current_pattern
    pattern_start_time,  \* self.pattern_start_time
    pattern_duration,    \* self.pattern_duration
    base_request_rate,   \* self.base_request_rate (thousandths)
    last_op,             \* history: the operation that produced this state
    last_effect,         \* history: what that operation did to the pattern
    pc,                  \* position of the main loop
    exc,                 \* the exception that left the loop, or "None"
    log_data,            \* local log_data of the loop
    influx_success,      \* local influx_success of the loop
    delay,               \* the argument of time.sleep (ms)
    handed,              \* history: the sample passed to write_to_influxdb
    point,               \* the Point given to write_api.write
    write_raised,        \* history: the last write_api.write raised
    pending,             \* history: samples generated and not yet handed on
    influx_closed,       \* number of influx_client.close() calls
    raw_f,               \* logs/output.log: buffered and flushed lines
    json_f,              \* logs/output.json.log: buffered and flushed lines
    influx_db,           \* points the time-series store accepted (request ids)
    failed_sink,         \* history: the sink that failed in this dispatch
    drawn_under,         \* history: current_pattern when log_data was drawn
    request,             \* the POST request the alert handler is serving
    responses,           \* the responses sent for that request, in order
    alerts_log,          \* logs/alerts.log: the appended lines
    served               \* number of requests the alert server accepted

simVars == <<influx_client, current_pattern, pattern_start_time,
             pattern_duration, base_request_rate>>
histVars == <<last_op, last_effect>>
localVars == <<log_data, influx_success, delay, handed, point>>
runVars == <<pc, exc, log_data, influx_success, delay, handed, point,
             write_raised, pending, influx_closed>>
lgVars == <<raw_f, json_f, influx_db, failed_sink>>
webVars == <<request, responses, alerts_log, served>>

vars == <<clock, simVars, histVars, runVars, lgVars, drawn_under, webVars>>

\* The three fields of the pattern state machine, as one value.
PatternState ==
    [current_pattern |-> current_pattern,
     pattern_start_time |-> pattern_start_time,
     pattern_duration |-> pattern_duration]

\* ------------------------------------------------ change_pattern (l.111-115)
\* `t' is the reading of time.time() at line 114.
\* Mutant: the start time is not reset.
change_pattern_keeps_start(s, pattern, duration, t) ==
    [current_pattern |-> pattern,
     pattern_start_time |-> s.pattern_start_time,
     pattern_duration |-> duration]

change_pattern(s, pattern, duration, t) ==
    [current_pattern |-> pattern,
     pattern_start_time |-> t,
     pattern_duration |-> duration]

\* Mutant: the expiry test is >= instead of >.
update_pattern_expiry_ge(s, current_time, t1, t2, rnd, choice) ==
    LET s1 == IF /\ s.pattern_duration > 0
                 /\ current_time - s.pattern_start_time >= s.pattern_duration
              THEN change_pattern(s, NORMAL, 0, t1)
              ELSE s
    IN  IF /\ s1.current_pattern = NORMAL
           /\ rnd
           /\ current_time - s1.pattern_start_time > CalmPeriod
        THEN change_pattern(s1, incident_patterns[choice][1],
                            incident_patterns[choice][2], t2)
        ELSE s1

\* Mutant: the calm-period test is >= instead of >.
update_pattern_calm_ge(s, current_time, t1, t2, rnd, choice) ==
    LET s1 == IF /\ s.pattern_duration > 0
                 /\ current_time - s.pattern_start_time > s.pattern_duration
              THEN change_pattern(s, NORMAL, 0, t1)
              ELSE s
    IN  IF /\ s1.current_pattern = NORMAL
           /\ rnd
           /\ current_time - s1.pattern_start_time >= CalmPeriod
        THEN change_pattern(s1, incident_patterns[choice][1],
                            incident_patterns[choice][2], t2)
        ELSE s1

\* Mutant: expiry clears the duration and forgets to reset the pattern.
update_pattern_expiry_keeps(s, current_time, t1, t2, rnd, choice) ==
    LET s1 == IF /\ s.pattern_duration > 0
                 /\ current_time - s.pattern_start_time > s.pattern_duration
              THEN change_pattern(s, s.current_pattern, 0, t1)
              ELSE s
    IN  IF /\ s1.current_pattern = NORMAL
           /\ rnd
           /\ current_time - s1.pattern_start_time > CalmPeriod
        THEN change_pattern(s1, incident_patterns[choice][1],
                            incident_patterns[choice][2], t2)
        ELSE s1

\* ------------------------------------------------ update_pattern (l.128-150)
\* current_time: the reading at line 130; t1, t2: the readings of the two
\* change_pattern calls; rnd: random.random() < 0.05; choice: the index that
\* random.choice picks in incident_patterns.
\* Mutant: the elapsed time is computed once, before the expiry, and the
\* trigger tests that stale value.
update_pattern_stale_elapsed(s, current_time, t1, t2, rnd, choice) ==
    LET elapsed == current_time - s.pattern_start_time
        s1 == IF s.pattern_duration > 0 /\ elapsed > s.pattern_duration
              THEN change_pattern(s, NORMAL, 0, t1)
              ELSE s
    IN  IF s1.current_pattern = NORMAL /\ rnd /\ elapsed > CalmPeriod
        THEN change_pattern(s1, incident_patterns[choice][1],
                            incident_patterns[choice][2], t2)
        ELSE s1

\* Mutant: the subtraction of the expiry test is reversed.
update_pattern_expiry_reversed(s, current_time, t1, t2, rnd, choice) ==
    LET s1 == IF /\ s.pattern_duration > 0
                 /\ s.pattern_start_time - current_time > s.pattern_duration
              THEN change_pattern(s, NORMAL, 0, t1)
              ELSE s
    IN  IF /\ s1.current_pattern = NORMAL
           /\ rnd
           /\ current_time - s1.pattern_start_time > CalmPeriod
        THEN change_pattern(s1, incident_patterns[choice][1],
                            incident_patterns[choice][2], t2)
        ELSE s1

update_pattern(s, current_time, t1, t2, rnd, choice) ==
    LET s1 == IF /\ s.pattern_duration > 0
                 /\ current_time - s.pattern_start_time > s.pattern_duration
              THEN change_pattern(s, NORMAL, 0, t1)
              ELSE s
    IN  IF /\ s1.current_pattern = NORMAL
           /\ rnd
           /\ current_time - s1.pattern_start_time > CalmPeriod
        THEN change_pattern(s1, incident_patterns[choice][1],
                            incident_patterns[choice][2], t2)
        ELSE s1

\* What a call did to the pattern state (history only).
Effect(old, new) ==
    IF new = old THEN "none"
    ELSE IF new.current_pattern = NORMAL THEN "to_normal"
    ELSE "to_incident"

\* ------------------------------------------------ __init__ (l.37-50)
\* The client is None when InfluxDBClient(...) raised; when only ping() raised
\* the client stays, and its writes may raise.
InitSimulator ==
    /\ clock = 0
    /\ influx_client \in {"None", "client"}
    /\ current_pattern = NORMAL
    /\ pattern_start_time = 0
    /\ pattern_duration = 0
    /\ base_request_rate = 1000

\* An unbound local is the empty sequence, a bound one the sequence of its value.
None == <<>>
Some(v) == <<v>>
Val(x) == x[1]

\* Nothing of a main loop has run.
InitIdle ==
    /\ last_op = "__init__"
    /\ last_effect = "none"
    /\ exc = "None"
    /\ log_data = None
    /\ influx_success = None
    /\ delay = None
    /\ handed = None
    /\ point = None
    /\ write_raised = FALSE
    /\ pending = 0
    /\ influx_closed = 0
    /\ raw_f = [state |-> "closed", buffer |-> <<>>, disk |-> <<>>]
    /\ json_f = [state |-> "closed", buffer |-> <<>>, disk |-> <<>>]
    /\ influx_db = <<>>
    /\ failed_sink = "None"
    /\ drawn_under = None
    /\ request = None
    /\ responses = <<>>
    /\ alerts_log = <<>>
    /\ served = 0

\* A constructed simulator whose methods a caller invokes one by one.
Init ==
    /\ InitSimulator
    /\ InitIdle
    /\ pc = "idle"

\* Time passes between two calls.
Tick ==
    \E d \in 1..MaxStep :
        /\ clock + d <= MaxTime
        /\ clock' = clock + d
        /\ last_op' = "tick"
        /\ last_effect' = "none"
        /\ UNCHANGED <<simVars, drawn_under, webVars, runVars, lgVars>>

\* A caller forces a pattern: change_pattern(pattern, duration).
ChangePattern ==
    \E pattern \in TrafficPattern, duration \in Durations :
        LET new == change_pattern(PatternState, pattern, duration, clock)
        IN  /\ current_pattern' = new.current_pattern
            /\ pattern_start_time' = new.pattern_start_time
            /\ pattern_duration' = new.pattern_duration
            /\ last_op' = "change_pattern"
            /\ last_effect' = Effect(PatternState, new)
            /\ UNCHANGED <<clock, influx_client, base_request_rate, drawn_under,
                           webVars, runVars, lgVars>>

\* A caller runs update_pattern(); the call reads the clock up to three times.
UpdatePattern ==
    \E lag1 \in 0..MaxLag, lag2 \in 0..MaxLag, rnd \in BOOLEAN,
       choice \in DOMAIN incident_patterns :
        LET t1 == clock + lag1
            t2 == t1 + lag2
            new == update_pattern(PatternState, clock, t1, t2, rnd, choice)
        IN  /\ t2 <= MaxTime
            /\ current_pattern' = new.current_pattern
            /\ pattern_start_time' = new.pattern_start_time
            /\ pattern_duration' = new.pattern_duration
            /\ clock' = t2
            /\ last_op' = "update_pattern"
            /\ last_effect' = Effect(PatternState, new)
            /\ UNCHANGED <<influx_client, base_request_rate, drawn_under,
                           webVars, runVars, lgVars>>

Next == Tick \/ ChangePattern \/ UpdatePattern

Spec == Init /\ [][Next]_vars

\* The simulator as some sequence of change_pattern and update_pattern calls
\* left it, with the time counted from the last change_pattern call: any
\* pattern with any duration a caller or the table gives.  From here on only
\* update_pattern is called, and the clock keeps advancing.
LiveDurations == Durations \cup {incident_patterns[i][2] : i \in DOMAIN incident_patterns}

InitLive ==
    /\ clock = 0
    /\ influx_client \in {"None", "client"}
    /\ current_pattern \in TrafficPattern
    /\ pattern_start_time = 0
    /\ pattern_duration \in LiveDurations
    /\ base_request_rate = 1000
    /\ InitIdle
    /\ pc = "idle"

\* Time passes beyond the last reading the model explores, and the loop goes
\* on: the clock reads MaxTime from then on.  A pattern whose end lies before
\* MaxTime is expired at MaxTime as it is at every later reading.
TickBeyond ==
    /\ clock = MaxTime
    /\ last_op' = "tick"
    /\ last_effect' = "none"
    /\ UNCHANGED <<clock, simVars, runVars, lgVars, drawn_under, webVars>>

NextLive == Tick \/ TickBeyond \/ UpdatePattern

\* l.180-207: the loop calls update_pattern in every iteration and sleeps in
\* between, so neither the call nor the passing of time is postponed forever.
SpecLive ==
    /\ InitLive
    /\ [][NextLive]_vars
    /\ WF_vars(Tick)
    /\ WF_vars(TickBeyond)
    /\ WF_vars(UpdatePattern)


\* ------------------------------------------------ random sources
\* random.choices(population, weights)[0]: an element of positive weight.
choices(population, weights) ==
    {population[i] : i \in {j \in DOMAIN population : weights[j] > 0}}

\* random.randint(a, b): an integer of a..b (sampled).
randint(a, b) ==
    {a, b} \cup {x \in a..b : (x - a) % LatencyStep = 0}

\* random.uniform(a, b), a and b in milliseconds (sampled).
uniform(a, b) ==
    {a, b} \cup {x \in a..b : x % JitterStep = 0}

\* ------------------------------------------------ configuration (l.18-20)
STATUS_CODES == <<200, 201, 202, 400, 401, 403, 404, 500, 503>>

\* Mutant: the Outage branch draws from STATUS_CODES with Normal's weights.
_get_pattern_specific_values_outage_codes(pattern) ==
    IF pattern = NORMAL THEN
        choices(STATUS_CODES, <<30, 10, 10, 5, 3, 2, 2, 3, 1>>) \X randint(50, 500)
    ELSE IF pattern = SPIKE THEN
        choices(STATUS_CODES, <<25, 8, 8, 8, 5, 3, 3, 5, 2>>) \X randint(100, 800)
    ELSE IF pattern = OUTAGE THEN
        choices(STATUS_CODES, <<30, 10, 10, 5, 3, 2, 2, 3, 1>>) \X randint(5000, 10000)
    ELSE IF pattern = SLOW_RESPONSE THEN
        choices(STATUS_CODES, <<30, 10, 10, 5, 3, 2, 2, 3, 1>>) \X randint(1500, 3000)
    ELSE IF pattern = HIGH_ERROR_RATE THEN
        choices(STATUS_CODES, <<10, 3, 3, 15, 10, 8, 8, 15, 10>>) \X randint(50, 500)
    ELSE {}

\* ------------------------------- _get_pattern_specific_values (l.72-98)
\* The <<status, latency>> pairs the call may return; none when no branch
\* binds status and latency (line 98 then raises UnboundLocalError).
_get_pattern_specific_values(pattern) ==
    IF pattern = NORMAL THEN
        choices(STATUS_CODES, <<30, 10, 10, 5, 3, 2, 2, 3, 1>>) \X randint(50, 500)
    ELSE IF pattern = SPIKE THEN
        choices(STATUS_CODES, <<25, 8, 8, 8, 5, 3, 3, 5, 2>>) \X randint(100, 800)
    ELSE IF pattern = OUTAGE THEN
        choices(<<500, 503, 504>>, <<1, 2, 1>>) \X randint(5000, 10000)
    ELSE IF pattern = SLOW_RESPONSE THEN
        choices(STATUS_CODES, <<30, 10, 10, 5, 3, 2, 2, 3, 1>>) \X randint(1500, 3000)
    ELSE IF pattern = HIGH_ERROR_RATE THEN
        choices(STATUS_CODES, <<10, 3, 3, 15, 10, 8, 8, 15, 10>>) \X randint(50, 500)
    ELSE {}

\* ------------------------------------------ generate_log_entry (l.52-70)
\* The entries the call may return.  Of the entry's fields the model keeps
\* status and latency_ms; timestamp, request_id, method and api are drawn
\* independently of the pattern and are not part of the state.
generate_log_entry(pattern) ==
    {[status |-> v[1], latency_ms |-> v[2]] :
        v \in _get_pattern_specific_values(pattern)}

\* --------------------------------------- _get_request_interval (l.100-109)
\* The delays (ms) the call may return.  base_interval = 1.0 / rate is
\* 1000000 \div rate in ms; * 0.2 is \div 5.
_get_request_interval(rate, pattern) ==
    LET base_interval == 1000000 \div rate
    IN  IF pattern = SPIKE THEN {base_interval \div 5}
        ELSE IF pattern = OUTAGE THEN {base_interval * 2}
        ELSE {base_interval + j : j \in uniform(-300, 300)}

\* Mutant: the exception of write_api.write is not caught.
write_to_influxdb_uncaught(client, write_ok) ==
    IF client = "None" THEN [returns |-> FALSE, raised |-> "None"]
    ELSE IF write_ok THEN [returns |-> TRUE, raised |-> "None"]
    ELSE [returns |-> FALSE, raised |-> "propagated"]

\* ------------------------------------------- write_to_influxdb (l.152-172)
\* write_ok: write_api.write returned; otherwise it (or the Point's
\* construction) raised an Exception, which lines 170-172 catch.
write_to_influxdb(client, write_ok) ==
    IF client = "None" THEN [returns |-> FALSE, raised |-> "None"]
    ELSE IF write_ok THEN [returns |-> TRUE, raised |-> "None"]
    ELSE [returns |-> FALSE, raised |-> "caught"]

\* Mutant: the sample is displayed before it is sent to the store.
run_next_print_first(p) ==
    CASE p = "update" -> "generate"
      [] p = "generate" -> "print"
      [] p = "print" -> "write"
      [] p = "write" -> "interval"
      [] p = "interval" -> "sleep"
      [] p = "sleep" -> "update"

\* ------------------------------------------------------- run (l.181-207)
\* The statement that follows statement p in the loop body.
run_next(p) ==
    CASE p = "update" -> "generate"
      [] p = "generate" -> "write"
      [] p = "write" -> "print"
      [] p = "print" -> "interval"
      [] p = "interval" -> "sleep"
      [] p = "sleep" -> "update"

LoopPcs == {"update", "generate", "write", "print", "interval", "sleep"}

\* The least whole number of seconds that is at least ms milliseconds.
CeilSeconds(ms) == (ms + 999) \div 1000

\* run() starts on a constructed simulator.
InitRun ==
    /\ InitSimulator
    /\ InitIdle
    /\ pc = "update"

\* l.183: self.update_pattern()
RunUpdate ==
    /\ pc = "update"
    /\ \E lag1 \in 0..MaxLag, lag2 \in 0..MaxLag, rnd \in BOOLEAN,
          choice \in DOMAIN incident_patterns :
        LET t1 == clock + lag1
            t2 == t1 + lag2
            new == update_pattern(PatternState, clock, t1, t2, rnd, choice)
        IN  /\ t2 <= MaxTime
            /\ current_pattern' = new.current_pattern
            /\ pattern_start_time' = new.pattern_start_time
            /\ pattern_duration' = new.pattern_duration
            /\ clock' = t2
            /\ last_op' = "update_pattern"
            /\ last_effect' = Effect(PatternState, new)
    /\ pc' = run_next(pc)
    /\ UNCHANGED <<pending, influx_client, base_request_rate, drawn_under,
                   webVars, exc, localVars, write_raised, influx_closed,
                   lgVars>>

\* l.186: log_data = self.generate_log_entry()
RunGenerate ==
    /\ pc = "generate"
    /\ IF generate_log_entry(current_pattern) = {}
       THEN /\ exc' = "UnboundLocalError"
            /\ pc' = "finally"
            /\ UNCHANGED <<log_data, pending, drawn_under>>
       ELSE /\ \E e \in generate_log_entry(current_pattern) : log_data' = Some(e)
            /\ drawn_under' = Some(current_pattern)
            /\ pending' = pending + 1
            /\ pc' = run_next(pc)
            /\ UNCHANGED exc
    /\ UNCHANGED <<clock, simVars, webVars, histVars, influx_success, delay,
                   handed, point, write_raised, influx_closed, lgVars>>

\* l.158-165: the Point built from a sample; its traffic_pattern tag is
\* self.current_pattern.value, read as the point is built.
Point_tagged_normal(log_entry, pattern) ==
    [status_code |-> log_entry.status,
     latency_ms |-> log_entry.latency_ms,
     traffic_pattern |-> NORMAL]

Point(log_entry, pattern) ==
    [status_code |-> log_entry.status,
     latency_ms |-> log_entry.latency_ms,
     traffic_pattern |-> pattern]

\* l.187: influx_success = self.write_to_influxdb(log_data)
RunWrite ==
    /\ pc = "write"
    /\ log_data # None
    /\ \E write_ok \in BOOLEAN :
        LET r == write_to_influxdb(influx_client, write_ok)
        IN  /\ handed' = log_data
            /\ pending' = pending - 1
            /\ point' = IF influx_client = "None" THEN None
                        ELSE Some(Point(Val(log_data), current_pattern))
            /\ write_raised' = (influx_client # "None" /\ ~write_ok)
            /\ IF r.raised = "propagated"
               THEN /\ exc' = "WriteError"
                    /\ pc' = "finally"
                    /\ UNCHANGED influx_success
               ELSE /\ influx_success' = Some(r.returns)
                    /\ pc' = run_next(pc)
                    /\ UNCHANGED exc
    /\ UNCHANGED <<clock, simVars, drawn_under, webVars, histVars, log_data,
                   delay, influx_closed, lgVars>>

\* l.190-204: the sample is printed with its pattern and success indicators.
RunPrint ==
    /\ pc = "print"
    /\ pc' = run_next(pc)
    /\ UNCHANGED <<pending, clock, simVars, drawn_under, webVars, histVars, exc,
                   localVars, write_raised, influx_closed, lgVars>>

\* l.207: the argument of time.sleep is computed.
\* Mutant: the rate adjusted for a spike is stored back into the simulator.
RunInterval_stores_rate ==
    /\ pc = "interval"
    /\ \E d \in _get_request_interval(base_request_rate, current_pattern) :
          delay' = Some(d)
    /\ base_request_rate' = IF current_pattern = SPIKE
                             THEN base_request_rate * 5
                             ELSE base_request_rate
    /\ pc' = run_next(pc)
    /\ UNCHANGED <<pending, clock, influx_client, current_pattern,
                   pattern_start_time, pattern_duration, drawn_under, webVars,
                   histVars, exc, log_data, influx_success, handed, point,
                   write_raised, influx_closed, lgVars>>

RunInterval ==
    /\ pc = "interval"
    /\ \E d \in _get_request_interval(base_request_rate, current_pattern) :
          delay' = Some(d)
    /\ pc' = run_next(pc)
    /\ UNCHANGED <<pending, clock, simVars, drawn_under, webVars, histVars, exc,
                   log_data, influx_success, handed, point, write_raised,
                   influx_closed, lgVars>>

\* l.207: time.sleep(delay) raises ValueError on a negative delay; otherwise
\* it returns after at least the delay.  The locals of the iteration are rebound
\* before their next use, and the model clears them as the iteration ends.
RunSleep ==
    /\ pc = "sleep"
    /\ delay # None
    /\ IF Val(delay) < 0
       THEN /\ exc' = "ValueError"
            /\ pc' = "finally"
            /\ UNCHANGED <<clock, localVars, drawn_under>>
       ELSE /\ \E over \in 0..MaxLag :
                /\ clock + CeilSeconds(Val(delay)) + over <= MaxTime
                /\ clock' = clock + CeilSeconds(Val(delay)) + over
            /\ pc' = run_next(pc)
            /\ log_data' = None
            /\ influx_success' = None
            /\ delay' = None
            /\ handed' = None
            /\ point' = None
            /\ drawn_under' = None
            /\ UNCHANGED exc
    /\ UNCHANGED <<pending, simVars, webVars, histVars, write_raised,
                   influx_closed, lgVars>>

\* Ctrl+C: KeyboardInterrupt is raised between two statements of the loop, or
\* inside time.sleep.
RunInterrupt ==
    /\ pc \in LoopPcs
    /\ exc' = "KeyboardInterrupt"
    /\ pc' = "except"
    /\ UNCHANGED <<pending, clock, simVars, drawn_under, webVars, histVars,
                   localVars, write_raised, influx_closed, lgVars>>

\* l.209-210: except KeyboardInterrupt
RunExcept ==
    /\ pc = "except"
    /\ pc' = "finally"
    /\ UNCHANGED <<pending, clock, simVars, drawn_under, webVars, histVars, exc,
                   localVars, write_raised, influx_closed, lgVars>>

\* l.211-213: finally: the client is closed if there is one.
RunFinally ==
    /\ pc = "finally"
    /\ influx_closed' = IF influx_client # "None" THEN influx_closed + 1
                        ELSE influx_closed
    /\ pc' = "exited"
    /\ UNCHANGED <<pending, clock, simVars, drawn_under, webVars, histVars, exc,
                   localVars, write_raised, lgVars>>

NextRun ==
    \/ RunUpdate
    \/ RunGenerate
    \/ RunWrite
    \/ RunPrint
    \/ RunInterval
    \/ RunSleep
    \/ RunInterrupt
    \/ RunExcept
    \/ RunFinally

\* TrafficSimulator().run()
SpecRun == InitRun /\ [][NextRun]_vars


\* ------------------------------------------------ _get_request_interval only
\* Rates (thousandths of a request per second) at which the interval law is
\* examined; 1000000 \div rate is exact for each.
Rates == {500, 1000, 2000, 4000, 5000}

\* A simulator with any of the rates and any pattern, about to compute the
\* delay of line 207.
InitInterval ==
    /\ clock = 0
    /\ influx_client \in {"None", "client"}
    /\ current_pattern \in TrafficPattern
    /\ pattern_start_time = 0
    /\ pattern_duration = IF current_pattern = NORMAL THEN 0 ELSE DefaultDuration
    /\ base_request_rate \in Rates
    /\ InitIdle
    /\ pc = "interval"

NextInterval == RunInterval \/ RunSleep \/ RunFinally

SpecInterval == InitInterval /\ [][NextInterval]_vars

\* =================================================== log_generator.py
\* ------------------------------------------ generate_log_entry (l.28-48)
\* The entries the call may return; request_id stands for the uuid4 of the
\* entry, the n-th entry's being n.
lg_generate_log_entry(n) ==
    {[request_id |-> n, status |-> st, latency_ms |-> lat] :
        st \in {STATUS_CODES[i] : i \in DOMAIN STATUS_CODES},
        lat \in randint(10, 2000)}

\* ------------------------------------------- write_to_influxdb (l.50-70)
\* TRUE when write_api.write returned; an Exception is caught and gives FALSE.
lg_write_to_influxdb(client, write_ok) == write_ok

\* The lines a file holds, flushed or not, each named by its request_id.
Lines(f) == f.disk \o f.buffer
\* f.write(line): the line joins the buffer.
FileWrite(f, line) == [f EXCEPT !.buffer = Append(@, line)]
\* f.flush(), and the flush that closing performs.
FileFlush_keeps_buffer(f) == f

FileFlush(f) == [f EXCEPT !.disk = @ \o f.buffer, !.buffer = <<>>]
\* f.close(): the buffer is flushed and the file is closed.
FileClose_leaves_open(f) == FileFlush(f)

FileClose(f) == [FileFlush(f) EXCEPT !.state = "closed"]

LgLoopPcs == {"lg_generate", "raw_write", "json_write", "lg_influx", "lg_print",
              "raw_flush", "json_flush", "lg_sleep"}

\* l.72-85: the script has started; the client is None when
\* InfluxDBClient(...) raised.
InitLogGen ==
    /\ clock = 0
    /\ influx_client \in {"None", "client"}
    /\ current_pattern = NORMAL
    /\ pattern_start_time = 0
    /\ pattern_duration = 0
    /\ base_request_rate = 1000
    /\ InitIdle
    /\ pc = "open"

\* l.88: both log files are opened for appending, or open raises OSError.
LgOpen ==
    /\ pc = "open"
    /\ \/ /\ raw_f' = [raw_f EXCEPT !.state = "open"]
          /\ json_f' = [json_f EXCEPT !.state = "open"]
          /\ pc' = "lg_generate"
          /\ UNCHANGED exc
       \/ /\ exc' = "OSError"
          /\ pc' = "lg_finally"
          /\ UNCHANGED <<raw_f, json_f>>
    /\ UNCHANGED <<pending, clock, simVars, drawn_under, webVars, histVars,
                   localVars, write_raised, influx_closed, influx_db,
                   failed_sink>>

\* l.91: log_data = generate_log_entry()
LgGenerate ==
    /\ pc = "lg_generate"
    /\ Len(Lines(raw_f)) < MaxSamples
    /\ \E e \in lg_generate_log_entry(Len(Lines(raw_f)) + 1) : log_data' = Some(e)
    /\ failed_sink' = "None"
    /\ pending' = pending + 1
    /\ pc' = "raw_write"
    /\ UNCHANGED <<clock, simVars, drawn_under, webVars, histVars, exc,
                   influx_success, delay, handed, point, write_raised,
                   influx_closed, raw_f, json_f, influx_db>>

\* l.94-99: raw_f.write(raw_log_line + "\n"), or the write raises OSError.
LgRawWrite ==
    /\ pc = "raw_write"
    /\ \/ /\ raw_f' = FileWrite(raw_f, Val(log_data).request_id)
          /\ pc' = "json_write"
          /\ UNCHANGED <<exc, failed_sink>>
       \/ /\ exc' = "OSError"
          /\ failed_sink' = "raw"
          /\ pc' = "with_exit"
          /\ UNCHANGED raw_f
    /\ UNCHANGED <<pending, clock, simVars, drawn_under, webVars, histVars,
                   localVars, write_raised, influx_closed, json_f, influx_db>>

\* l.103-105: json_f.write(json_log_line + "\n"), or the write raises OSError.
LgJsonWrite ==
    /\ pc = "json_write"
    /\ \/ /\ json_f' = FileWrite(json_f, Val(log_data).request_id)
          /\ pc' = "lg_influx"
          /\ UNCHANGED <<exc, failed_sink>>
       \/ /\ exc' = "OSError"
          /\ failed_sink' = "json"
          /\ pc' = "with_exit"
          /\ UNCHANGED json_f
    /\ UNCHANGED <<pending, clock, simVars, drawn_under, webVars, histVars,
                   localVars, write_raised, influx_closed, raw_f, influx_db>>

\* l.108-110: the point is written when there is a client.
LgInflux ==
    /\ pc = "lg_influx"
    /\ \E write_ok \in BOOLEAN :
        LET ok == IF influx_client = "None" THEN FALSE
                  ELSE lg_write_to_influxdb(influx_client, write_ok)
        IN  /\ influx_success' = Some(ok)
            /\ influx_db' = IF ok THEN Append(influx_db, Val(log_data).request_id)
                            ELSE influx_db
            /\ handed' = IF influx_client = "None" THEN handed ELSE log_data
            /\ pending' = pending - 1
            /\ write_raised' = (influx_client # "None" /\ ~write_ok)
            /\ failed_sink' = IF influx_client # "None" /\ ~write_ok
                              THEN "influx" ELSE failed_sink
    /\ pc' = "lg_print"
    /\ UNCHANGED <<clock, simVars, drawn_under, webVars, histVars, exc,
                   log_data, delay, point, influx_closed, raw_f, json_f>>

\* l.113-114: the line is printed with its status indicator.
LgPrint ==
    /\ pc = "lg_print"
    /\ pc' = "raw_flush"
    /\ UNCHANGED <<pending, clock, simVars, drawn_under, webVars, histVars, exc,
                   localVars, write_raised, influx_closed, lgVars>>

\* l.117: raw_f.flush(), or the flush raises OSError.
LgRawFlush ==
    /\ pc = "raw_flush"
    /\ \/ /\ raw_f' = FileFlush(raw_f)
          /\ pc' = "json_flush"
          /\ UNCHANGED <<exc, failed_sink>>
       \/ /\ exc' = "OSError"
          /\ failed_sink' = "raw"
          /\ pc' = "with_exit"
          /\ UNCHANGED raw_f
    /\ UNCHANGED <<pending, clock, simVars, drawn_under, webVars, histVars,
                   localVars, write_raised, influx_closed, json_f, influx_db>>

\* l.118: json_f.flush(), or the flush raises OSError.
LgJsonFlush ==
    /\ pc = "json_flush"
    /\ \/ /\ json_f' = FileFlush(json_f)
          /\ pc' = "lg_sleep"
          /\ UNCHANGED <<exc, failed_sink>>
       \/ /\ exc' = "OSError"
          /\ failed_sink' = "json"
          /\ pc' = "with_exit"
          /\ UNCHANGED json_f
    /\ UNCHANGED <<pending, clock, simVars, drawn_under, webVars, histVars,
                   localVars, write_raised, influx_closed, raw_f, influx_db>>

\* l.121: time.sleep(random.uniform(0.5, 3.0)); the script never reads the
\* clock.  The locals are rebound before their next use.
LgSleep ==
    /\ pc = "lg_sleep"
    /\ pc' = "lg_generate"
    /\ log_data' = None
    /\ influx_success' = None
    /\ handed' = None
    /\ UNCHANGED <<pending, clock, simVars, drawn_under, webVars, histVars, exc,
                   delay, point, write_raised, influx_closed, lgVars>>

\* Ctrl+C: KeyboardInterrupt is raised between two statements of the loop, or
\* inside time.sleep.
LgInterrupt ==
    /\ pc \in LgLoopPcs
    /\ exc' = "KeyboardInterrupt"
    /\ pc' = "with_exit"
    /\ UNCHANGED <<pending, clock, simVars, drawn_under, webVars, histVars,
                   localVars, write_raised, influx_closed, lgVars>>

\* l.88: the with statement closes both files as the exception leaves it.
LgWithExit ==
    /\ pc = "with_exit"
    /\ raw_f' = FileClose(raw_f)
    /\ json_f' = FileClose(json_f)
    /\ pc' = IF exc = "KeyboardInterrupt" THEN "lg_except" ELSE "lg_finally"
    /\ UNCHANGED <<pending, clock, simVars, drawn_under, webVars, histVars, exc,
                   localVars, write_raised, influx_closed, influx_db,
                   failed_sink>>

\* l.123-124: except KeyboardInterrupt
LgExcept ==
    /\ pc = "lg_except"
    /\ pc' = "lg_finally"
    /\ UNCHANGED <<pending, clock, simVars, drawn_under, webVars, histVars, exc,
                   localVars, write_raised, influx_closed, lgVars>>

\* l.125-127: finally: the client is closed if there is one.
LgFinally ==
    /\ pc = "lg_finally"
    /\ influx_closed' = IF influx_client # "None" THEN influx_closed + 1
                        ELSE influx_closed
    /\ pc' = "exited"
    /\ UNCHANGED <<pending, clock, simVars, drawn_under, webVars, histVars, exc,
                   localVars, write_raised, lgVars>>

NextLogGen ==
    \/ LgOpen
    \/ LgGenerate
    \/ LgRawWrite
    \/ LgJsonWrite
    \/ LgInflux
    \/ LgPrint
    \/ LgRawFlush
    \/ LgJsonFlush
    \/ LgSleep
    \/ LgInterrupt
    \/ LgWithExit
    \/ LgExcept
    \/ LgFinally

\* python log_generator.py
SpecLogGen == InitLogGen /\ [][NextLogGen]_vars

\* Either script is started and runs its main loop until it is left.
InitLoops == InitRun \/ InitLogGen

NextLoops == NextRun \/ NextLogGen

SpecLoops == InitLoops /\ [][NextLoops]_vars

\* =================================================== alert_webhook.py
\* HTTPServer serves one request at a time.  A request is its path, its
\* Content-Length header and its body.  A body is the text of a JSON document
\* in json.dumps' own spacing ("default") or in another spacing ("compact"),
\* a text that is no JSON ("truncated"), or bytes that are no UTF-8
\* ("bad_utf8").  The client stays connected until it is answered.
Paths == {"/alerts", "/health"}
ContentLengths == {"missing", "invalid", "exact"}

\* JSON documents, named by their shape:
\*   no_alerts          {"receiver": "ops"}
\*   empty_alerts       {"alerts": []}
\*   firing_alert       {"alerts": [{"status": "firing", "labels": {...}}]}
\*   entry_not_object   {"alerts": [5]}
\*   labels_not_object  {"alerts": [{"labels": 5}]}
\*   status_not_string  {"alerts": [{"status": 5}]}
\*   alerts_not_list    {"alerts": 5}
\*   number             5
\*   array              []
Documents == {"no_alerts", "empty_alerts", "firing_alert", "entry_not_object",
              "labels_not_object", "status_not_string", "alerts_not_list",
              "number", "array"}
Forms == {"default", "compact", "truncated", "bad_utf8"}
Bodies == [doc : Documents, form : Forms]

\* l.21: json.loads(post_data.decode('utf-8'))
json_loads(body) ==
    CASE body.form = "bad_utf8" -> [raised |-> "UnicodeDecodeError", value |-> None]
      [] body.form = "truncated" -> [raised |-> "JSONDecodeError", value |-> None]
      [] OTHER -> [raised |-> "None", value |-> Some(body.doc)]

\* l.74: json.dumps(alert_data) writes the document in the default spacing.
json_dumps(doc) == [doc |-> doc, form |-> "default"]

\* l.38-74: process_alert prints the alerts and then appends the payload to
\* logs/alerts.log; log_ok is FALSE when the file cannot be opened.
process_alert_logs_first(alert_data, log_ok) ==
    CASE alert_data = "number" -> [raised |-> "TypeError", appends |-> log_ok]
      [] alert_data = "alerts_not_list" -> [raised |-> "TypeError", appends |-> log_ok]
      [] alert_data \in {"entry_not_object", "labels_not_object", "status_not_string"} ->
            [raised |-> "AttributeError", appends |-> log_ok]
      [] ~log_ok -> [raised |-> "OSError", appends |-> FALSE]
      [] OTHER -> [raised |-> "None", appends |-> TRUE]

process_alert(alert_data, log_ok) ==
    CASE alert_data = "number" -> [raised |-> "TypeError", appends |-> FALSE]
      [] alert_data = "alerts_not_list" -> [raised |-> "TypeError", appends |-> FALSE]
      [] alert_data \in {"entry_not_object", "labels_not_object", "status_not_string"} ->
            [raised |-> "AttributeError", appends |-> FALSE]
      [] ~log_ok -> [raised |-> "OSError", appends |-> FALSE]
      [] OTHER -> [raised |-> "None", appends |-> TRUE]

\* l.28: the body of the 200 response.
Received == "{\"status\": \"received\"}"

Response(code, body) == [code |-> code, body |-> body]

\* l.80-85, 87-101: the server is started; logs/ exists.
InitWebhook ==
    /\ clock = 0
    /\ influx_client = "None"
    /\ current_pattern = NORMAL
    /\ pattern_start_time = 0
    /\ pattern_duration = 0
    /\ base_request_rate = 1000
    /\ InitIdle
    /\ pc = "serve"

\* l.85: serve_forever accepts the next request and calls do_POST.
WhReceive ==
    /\ pc = "serve"
    /\ served < MaxRequests
    /\ \E path \in Paths, content_length \in ContentLengths, body \in Bodies,
          d \in 0..MaxLag :
          /\ request' = Some([path |-> path, content_length |-> content_length,
                              body |-> body])
          /\ clock' = clock + d
    /\ responses' = <<>>
    /\ served' = served + 1
    /\ exc' = "None"
    /\ pc' = "do_POST"
    /\ UNCHANGED <<simVars, histVars, log_data, influx_success, delay, handed,
                   point, write_raised, pending, influx_closed, lgVars,
                   drawn_under, alerts_log>>

\* l.16, 34-36: any path but /alerts is answered 404.
DoPostPath ==
    /\ pc = "do_POST"
    /\ IF Val(request).path = "/alerts"
       THEN /\ pc' = "content_length"
            /\ UNCHANGED responses
       ELSE /\ responses' = Append(responses, Response(404, ""))
            /\ pc' = "finished"
    /\ UNCHANGED <<simVars, histVars, log_data, influx_success, delay, handed,
                   point, write_raised, pending, influx_closed, lgVars,
                   drawn_under, clock, exc, request,
                   alerts_log, served>>

\* l.17-18: int(self.headers['Content-Length']) and the read of the body stand
\* before the try: int(None) raises TypeError, int of a non-number ValueError,
\* and the exception leaves do_POST.
DoPostLength ==
    /\ pc = "content_length"
    /\ CASE Val(request).content_length = "missing" ->
                exc' = "TypeError" /\ pc' = "handle_error"
         [] Val(request).content_length = "invalid" ->
                exc' = "ValueError" /\ pc' = "handle_error"
         [] OTHER -> pc' = "try" /\ UNCHANGED exc
    /\ UNCHANGED <<simVars, histVars, log_data, influx_success, delay, handed,
                   point, write_raised, pending, influx_closed, lgVars,
                   drawn_under, clock, request, responses,
                   alerts_log, served>>

\* l.20-22: the body is parsed and process_alert appends it to the log; any
\* Exception goes to the handler at l.30.
DoPostProcess ==
    /\ pc = "try"
    /\ LET parsed == json_loads(Val(request).body)
       IN  IF parsed.raised # "None"
           THEN /\ exc' = parsed.raised
                /\ pc' = "do_except"
                /\ UNCHANGED alerts_log
           ELSE \E log_ok \in BOOLEAN :
                LET r == process_alert(Val(parsed.value), log_ok)
                IN  /\ alerts_log' =
                          IF r.appends
                          THEN Append(alerts_log,
                                      [request |-> served,
                                       timestamp |-> clock,
                                       payload |-> json_dumps(Val(parsed.value))])
                          ELSE alerts_log
                    /\ IF r.raised # "None"
                       THEN exc' = r.raised /\ pc' = "do_except"
                       ELSE pc' = "respond" /\ UNCHANGED exc
    /\ UNCHANGED <<simVars, histVars, log_data, influx_success, delay, handed,
                   point, write_raised, pending, influx_closed, lgVars,
                   drawn_under, clock, request, responses,
                   served>>

\* l.25-28: 200 with the body {"status": "received"}.
DoPostRespond ==
    /\ pc = "respond"
    /\ responses' = Append(responses, Response(200, Received))
    /\ pc' = "finished"
    /\ UNCHANGED <<simVars, histVars, log_data, influx_success, delay, handed,
                   point, write_raised, pending, influx_closed, lgVars,
                   drawn_under, clock, exc, request,
                   alerts_log, served>>

\* l.30-33: except Exception: 400 without a body.
DoPostExcept ==
    /\ pc = "do_except"
    /\ responses' = Append(responses, Response(400, ""))
    /\ pc' = "finished"
    /\ UNCHANGED <<simVars, histVars, log_data, influx_success, delay, handed,
                   point, write_raised, pending, influx_closed, lgVars,
                   drawn_under, clock, exc, request,
                   alerts_log, served>>

\* l.82: an exception that leaves do_POST reaches HTTPServer, which reports it
\* and closes the connection; nothing is sent to the client.
WhHandleError ==
    /\ pc = "handle_error"
    /\ pc' = "finished"
    /\ UNCHANGED <<simVars, histVars, log_data, influx_success, delay, handed,
                   point, write_raised, pending, influx_closed, lgVars,
                   drawn_under, clock, exc, request,
                   responses, alerts_log, served>>

\* l.85: the connection is closed and the server waits for the next request.
WhFinish ==
    /\ pc = "finished"
    /\ pc' = "serve"
    /\ request' = None
    /\ responses' = <<>>
    /\ exc' = "None"
    /\ UNCHANGED <<simVars, histVars, log_data, influx_success, delay, handed,
                   point, write_raised, pending, influx_closed, lgVars,
                   drawn_under, clock, alerts_log, served>>

NextWebhook ==
    \/ WhReceive
    \/ DoPostPath
    \/ DoPostLength
    \/ DoPostProcess
    \/ DoPostRespond
    \/ DoPostExcept
    \/ WhHandleError
    \/ WhFinish

\* python alert_webhook.py
SpecWebhook == InitWebhook /\ [][NextWebhook]_vars

\* ------------------------------------------------------------------ claims
\* A step taken by update_pattern / by any operation that moved the pattern
\* state machine.
UpdateStep == last_op' = "update_pattern"
Transition == PatternState' # PatternState

\* C1: expiry law. update_pattern called at now > T + D (D > 0) leaves
\* current_pattern = Normal and pattern_duration = 0; called at now <= T + D on
\* a non-Normal pattern it leaves pattern, start time and duration unchanged.
C1_ExpiryLaw ==
    [][UpdateStep =>
        /\ (pattern_duration > 0 /\ clock > pattern_start_time + pattern_duration)
              => (current_pattern' = NORMAL /\ pattern_duration' = 0)
        /\ (/\ current_pattern # NORMAL
            /\ pattern_duration > 0
            /\ clock <= pattern_start_time + pattern_duration)
              => PatternState' = PatternState]_vars

\* C1 witness: the scenario's end, an update_pattern call at t = 26 that expired
\* the pattern and left Normal with duration 0.
C1_Witness ==
    /\ last_op = "update_pattern"
    /\ last_effect = "to_normal"
    /\ clock = 26
    /\ pattern_start_time = 26
    /\ current_pattern = NORMAL
    /\ pattern_duration = 0

\* C2: the spontaneous trigger fires only from Normal, and only at a time
\* strictly more than 30 seconds after that Normal state's pattern_start_time.
C2_TriggerOnlyAfterCalm ==
    [][(UpdateStep /\ Transition /\ current_pattern' # NORMAL) =>
        /\ current_pattern = NORMAL
        /\ clock - pattern_start_time > 30]_vars

\* C2 witness: the trigger fired at the first instant it may, 31 s after
\* construction.
C2_Witness ==
    /\ last_op = "update_pattern"
    /\ last_effect = "to_incident"
    /\ clock = 31
    /\ pattern_start_time = 31

\* C3 (as claimed): in every reachable state pattern_duration = 0 implies
\* current_pattern = Normal.
C3_DurationZeroOnlyNormal ==
    pattern_duration = 0 => current_pattern = NORMAL

\* A change_pattern call that passes duration 0 with a non-Normal pattern.
ZeroDurationIncidentCall ==
    /\ last_op' = "change_pattern"
    /\ current_pattern' # NORMAL
    /\ pattern_duration' = 0

\* C3 (amended): "pattern_duration = 0 implies Normal" holds after construction
\* and is kept by every update_pattern call and by every change_pattern call
\* other than one that passes duration 0 with a non-Normal pattern.
C3_DurationZeroKept ==
    /\ C3_DurationZeroOnlyNormal
    /\ [][(C3_DurationZeroOnlyNormal /\ ~ZeroDurationIncidentCall)
            => C3_DurationZeroOnlyNormal']_vars

\* C3 witness: an update_pattern call expired the pattern, left Normal with
\* duration 0, and returned one second after the reset.
C3_Witness ==
    /\ last_op = "update_pattern"
    /\ last_effect = "to_normal"
    /\ pattern_duration = 0
    /\ current_pattern = NORMAL
    /\ clock = pattern_start_time + 1

\* The table entries as the claim states them.
TableEntries ==
    { <<SPIKE, 30>>, <<OUTAGE, 20>>, <<SLOW_RESPONSE, 40>>, <<HIGH_ERROR_RATE, 35>> }

\* C4 (as claimed): every transition into a non-Normal pattern sets the
\* pattern's table duration.
C4_EveryTransitionTableDuration ==
    [][(Transition /\ current_pattern' # NORMAL)
        => <<current_pattern', pattern_duration'>> \in TableEntries]_vars

\* C4 (amended): every transition into a non-Normal pattern made by
\* update_pattern sets the pattern's table duration, and the pattern is one of
\* the four of the table.
C4_TriggerTableDuration ==
    [][(UpdateStep /\ Transition /\ current_pattern' # NORMAL)
        => <<current_pattern', pattern_duration'>> \in TableEntries]_vars

\* C4 witness: the trigger chose SlowResponse and set 40 s.
C4_Witness ==
    /\ last_op = "update_pattern"
    /\ last_effect = "to_incident"
    /\ current_pattern = SLOW_RESPONSE
    /\ pattern_duration = 40

\* The status codes and latency range the claim gives for each pattern.
AllCodes == {200, 201, 202, 400, 401, 403, 404, 500, 503}

\* C5: under every pattern generate_log_entry returns (never fails) a sample
\* whose status is of the pattern's codes and whose latency_ms is in its range:
\* Normal 50-500, Spike 100-800, Outage 5000-10000 with {500, 503, 504},
\* SlowResponse 1500-3000, HighErrorRate 50-500.
C5_SampleWithinPattern ==
    /\ exc # "UnboundLocalError"
    /\ pc = "write" =>
        LET status == Val(log_data).status
            latency == Val(log_data).latency_ms
        IN  /\ current_pattern = NORMAL =>
                (status \in AllCodes /\ latency \in 50..500)
            /\ current_pattern = SPIKE =>
                (status \in AllCodes /\ latency \in 100..800)
            /\ current_pattern = OUTAGE =>
                (status \in {500, 503, 504} /\ latency \in 5000..10000)
            /\ current_pattern = SLOW_RESPONSE =>
                (status \in AllCodes /\ latency \in 1500..3000)
            /\ current_pattern = HIGH_ERROR_RATE =>
                (status \in AllCodes /\ latency \in 50..500)

\* C5 witness: a sample generated during an Outage, with status 504 and the
\* slowest latency.
C5_Witness ==
    /\ pc = "write"
    /\ current_pattern = OUTAGE
    /\ log_data # None
    /\ Val(log_data).status = 504
    /\ Val(log_data).latency_ms = 10000

\* C6 (as claimed): the delay passed to sleep is exactly 0.2 / rate under
\* Spike, exactly 2.0 / rate under Outage, and otherwise within 0.3 s of
\* 1 / rate and never negative.  (delay in ms, rate in thousandths.)
C6_IntervalLaw ==
    pc = "sleep" =>
        LET d == Val(delay) * base_request_rate
        IN  /\ current_pattern = SPIKE => d = 200000
            /\ current_pattern = OUTAGE => d = 2000000
            /\ current_pattern \notin {SPIKE, OUTAGE} =>
                /\ d >= 1000000 - 300 * base_request_rate
                /\ d <= 1000000 + 300 * base_request_rate
                /\ Val(delay) >= 0

\* The order of one iteration, as the claim gives it.
IterationOrder ==
    { <<"update", "generate">>, <<"generate", "write">>, <<"write", "print">>,
      <<"print", "interval">>, <<"interval", "sleep">>, <<"sleep", "update">> }

InLoop(p) == p \in {"update", "generate", "write", "print", "interval", "sleep"}

\* C7: every iteration runs update_pattern, generate_log_entry, the dispatch
\* to the sink, the delay's computation and the sleep in this order; a sample
\* is generated only when every earlier one has been handed to the sink, and
\* the sample handed to the sink is the one just generated.
C7_FixedOrder ==
    [][/\ (InLoop(pc) /\ InLoop(pc') /\ pc' # pc) => <<pc, pc'>> \in IterationOrder
       /\ (pc = "generate" /\ InLoop(pc')) =>
            (pending = 0 /\ pending' = 1 /\ log_data' # None)
       /\ (pc = "write" /\ InLoop(pc')) =>
            (pending' = 0 /\ handed' = log_data /\ log_data' = log_data)
       /\ (pc \notin {"generate", "write"}) => pending' = pending
       /\ pending' \in {0, 1}]_vars

\* C7 witness: a second iteration is about to dispatch its sample, nothing
\* else pending.
C7_Witness ==
    /\ pc = "write"
    /\ clock > 0
    /\ pending = 1
    /\ log_data # None
    /\ handed = None

\* C8: a failing time-series write makes write_to_influxdb return False and
\* raise nothing, leaves current_pattern, pattern_start_time and
\* pattern_duration as they were, and the loop goes on to print, sleep and the
\* next iteration.
C8_SinkFailureIsolated ==
    [][/\ (pc = "write" /\ pc' # pc /\ pc' # "except") =>
            /\ pc' = "print"
            /\ exc' = "None"
            /\ PatternState' = PatternState
            /\ (influx_client = "None" \/ write_raised')
                  => influx_success' = Some(FALSE)
       /\ (influx_success = Some(FALSE) /\ pc' # pc /\ pc' # "except") =>
            /\ pc = "print" => pc' = "interval"
            /\ pc = "interval" => pc' = "sleep"
            /\ pc = "sleep" => pc' = "update"]_vars

\* C8 witness: the iteration after one whose write raised is running.
C8_Witness ==
    /\ pc = "generate"
    /\ write_raised
    /\ influx_client = "client"
    /\ exc = "None"

\* The file holds the line of request `id'.
Has(f, id) == \E i \in DOMAIN Lines(f) : Lines(f)[i] = id

\* C9 (as claimed): when one sink fails in a dispatch, the sample still reaches
\* each of the other sinks of that dispatch.
C9_SinkFailureIsolation ==
    (/\ failed_sink # "None"
     /\ log_data # None
     /\ pc = "lg_sleep" \/ (pc = "exited" /\ exc = "OSError")) =>
        LET id == Val(log_data).request_id
        IN  /\ failed_sink # "raw" => Has(raw_f, id)
            /\ failed_sink # "json" => Has(json_f, id)
            /\ (failed_sink # "influx" /\ influx_client # "None")
                  => handed = log_data

\* C10 (as claimed): when KeyboardInterrupt has stopped the loop, the last
\* generated sample has reached all sinks of its iteration or none.
C10_NoPartialSample ==
    (pc = "exited" /\ exc = "KeyboardInterrupt" /\ log_data # None) =>
        LET id == Val(log_data).request_id
        IN  \/ /\ Has(raw_f, id)
               /\ Has(json_f, id)
               /\ influx_client # "None" => handed = log_data
            \/ /\ ~Has(raw_f, id)
               /\ ~Has(json_f, id)
               /\ handed # log_data

\* C11: every way out of a main loop (Ctrl+C, or an exception raised inside an
\* iteration) closes what was opened exactly once before the script ends: the
\* InfluxDB client if one was created, and both log files of log_generator.
\* Nothing is closed while the loop still runs, and a closed file is never
\* reopened.
C11_CleanupOnce ==
    /\ [](/\ influx_closed <= 1
          /\ pc \in LoopPcs \cup LgLoopPcs => influx_closed = 0
          /\ pc \in LgLoopPcs => raw_f.state = "open" /\ json_f.state = "open"
          /\ pc = "exited" =>
                /\ influx_closed = IF influx_client = "None" THEN 0 ELSE 1
                /\ raw_f.state = "closed" /\ raw_f.buffer = <<>>
                /\ json_f.state = "closed" /\ json_f.buffer = <<>>)
    /\ [][/\ raw_f.state = "open" /\ raw_f'.state = "closed" => pc = "with_exit"
          /\ json_f.state = "open" /\ json_f'.state = "closed" => pc = "with_exit"
          /\ raw_f'.state = "open" /\ raw_f.state = "closed" => pc = "open"
          /\ json_f'.state = "open" /\ json_f.state = "closed" => pc = "open"
          /\ influx_closed' # influx_closed => pc' = "exited"]_vars

\* An I/O error inside an iteration of log_generator left the loop, and the
\* client and the files that held lines are closed.
C11_Witness ==
    /\ pc = "exited"
    /\ exc = "OSError"
    /\ influx_closed = 1
    /\ raw_f.state = "closed"
    /\ Len(raw_f.disk) >= 1

\* C12: the traffic_pattern tag of every Point handed to the store, and the
\* pattern the loop prints beside the sample, is the current_pattern under
\* which the sample's status and latency were drawn; the Point carries that
\* sample's status and latency.
C12_TagIsDrawPattern ==
    /\ point # None =>
          /\ drawn_under # None
          /\ log_data # None
          /\ Val(point).traffic_pattern = Val(drawn_under)
          /\ Val(point).status_code = Val(log_data).status
          /\ Val(point).latency_ms = Val(log_data).latency_ms
    /\ pc \in {"write", "print"} => drawn_under = Some(current_pattern)

\* A sample drawn during an outage was handed to the store and is about to be
\* printed.
C12_Witness ==
    /\ pc = "print"
    /\ point # None
    /\ Val(point).traffic_pattern = OUTAGE
    /\ Val(point).status_code = 500
    /\ drawn_under = Some(OUTAGE)

\* C13: every transition sets pattern_start_time to the instant it happens: a
\* change_pattern call (into any pattern, Normal -> Normal included) to the
\* time of the call, an expiry or a trigger inside update_pattern to a clock
\* reading taken during that call.  With a clock that never runs backwards,
\* pattern_start_time never exceeds the current time and never decreases.
C13_StartTimeReset ==
    /\ [](pattern_start_time <= clock)
    /\ [][/\ pattern_start_time' >= pattern_start_time
          /\ last_op' = "change_pattern" => pattern_start_time' = clock
          /\ (UpdateStep /\ Transition) =>
                (clock <= pattern_start_time' /\ pattern_start_time' <= clock')
          /\ (UpdateStep /\ ~Transition) =>
                pattern_start_time' = pattern_start_time]_vars

\* Normal was entered by a change_pattern call at t = 7, later than the
\* construction, and the start time is the time of the call.
C13_Witness ==
    /\ last_op = "change_pattern"
    /\ current_pattern = NORMAL
    /\ pattern_duration = DefaultDuration
    /\ clock = 7
    /\ pattern_start_time = 7

\* C14: drawing a sample (generate_log_entry with _get_pattern_specific_values),
\* dispatching it (write_to_influxdb) and computing the delay
\* (_get_request_interval) leave current_pattern, pattern_start_time and
\* pattern_duration as they were; no step of the loop changes
\* base_request_rate, which keeps the value the constructor gave it.
C14_Frame ==
    [][/\ pc \in {"generate", "write", "print", "interval", "sleep"} =>
             PatternState' = PatternState
       /\ base_request_rate' = base_request_rate]_vars

\* Inside a spike a sample was drawn and dispatched and the delay computed;
\* the spike's state and the base rate are as update_pattern left them.
C14_Witness ==
    /\ pc = "sleep"
    /\ current_pattern = SPIKE
    /\ pattern_duration = 30
    /\ handed # None
    /\ delay = Some(200)
    /\ base_request_rate = 1000

IsPrefix(a, b) == Len(a) <= Len(b) /\ SubSeq(b, 1, Len(a)) = a

\* C15: every sample adds exactly one line to logs/output.log and one to
\* logs/output.json.log, and no line once written is ever removed; whenever
\* the loop sleeps between two iterations both files hold, flushed to disk,
\* exactly one line per sample generated so far, in the order of generation.
C15_FileSinkCounts ==
    /\ [](pc = "lg_sleep" =>
            /\ log_data # None
            /\ raw_f.buffer = <<>>
            /\ json_f.buffer = <<>>
            /\ Len(raw_f.disk) = Val(log_data).request_id
            /\ Len(json_f.disk) = Val(log_data).request_id
            /\ \A i \in 1..Val(log_data).request_id :
                  raw_f.disk[i] = i /\ json_f.disk[i] = i)
    /\ [][/\ IsPrefix(raw_f.disk, raw_f'.disk)
          /\ IsPrefix(json_f.disk, json_f'.disk)
          /\ IsPrefix(Lines(raw_f), Lines(raw_f'))
          /\ IsPrefix(Lines(json_f), Lines(json_f'))
          /\ Len(Lines(raw_f')) <= Len(Lines(raw_f)) + 1
          /\ Len(Lines(json_f')) <= Len(Lines(json_f)) + 1]_vars

\* The loop sleeps after its second sample; both files hold two flushed lines.
C15_Witness ==
    /\ pc = "lg_sleep"
    /\ raw_f.disk = <<1, 2>>
    /\ json_f.disk = <<1, 2>>
    /\ raw_f.buffer = <<>>
    /\ json_f.buffer = <<>>

\* The request that was served is malformed: its Content-Length is missing or
\* no number, its body is no JSON text, or its alerts are wrongly shaped.
Malformed(rq) ==
    \/ rq.content_length # "exact"
    \/ rq.body.form \in {"truncated", "bad_utf8"}
    \/ rq.body.doc \in {"entry_not_object", "labels_not_object",
                        "status_not_string", "alerts_not_list", "number"}

\* C16: when the handler is done with a POST it has sent exactly one
\* response: 404 when the path is not /alerts, 400 for every malformed
\* /alerts request (a missing or invalid Content-Length included), and a 200
\* only for a well-formed one, with the body {"status": "received"}.
C16_OneResponsePerRequest ==
    pc = "finished" =>
        /\ Len(responses) = 1
        /\ Val(request).path # "/alerts" => responses[1].code = 404
        /\ (Val(request).path = "/alerts" /\ Malformed(Val(request))) =>
              responses[1].code = 400
        /\ responses[1].code = 200 =>
              /\ responses[1].body = Received
              /\ Val(request).path = "/alerts"
              /\ ~Malformed(Val(request))

\* The lines of logs/alerts.log that the request being served appended.
Appended == SelectSeq(alerts_log, LAMBDA l : l.request = served)
Answered(code) == \E i \in DOMAIN responses : responses[i].code = code

\* C19 as claimed: a request is answered 200 exactly when its payload was
\* appended once, verbatim (the body as received) behind its timestamp, and
\* the line is in the log before the 200 is sent; a request answered 400 or
\* 404 appended nothing.
C19_VerbatimAppend ==
    /\ Answered(200) =>
          /\ Len(Appended) = 1
          /\ Appended[1].payload = Val(request).body
          /\ Appended[1].timestamp <= clock
    /\ (pc = "finished" /\ Len(Appended) > 0) => Answered(200)
    /\ (Answered(400) \/ Answered(404)) => Appended = <<>>

\* C19 amended: the line holds the payload as json.dumps writes the parsed
\* document, which is the body as received only when the sender used the
\* same spacing; the rest is as claimed.
C19_ReserialisedAppend ==
    /\ Answered(200) =>
          /\ Len(Appended) = 1
          /\ Appended[1].payload = json_dumps(Val(request).body.doc)
          /\ Val(request).body.form \in {"default", "compact"}
          /\ Appended[1].timestamp <= clock
    /\ (pc = "finished" /\ Len(Appended) > 0) => Answered(200)
    /\ (Answered(400) \/ Answered(404)) => Appended = <<>>
    /\ Len(Appended) <= 1

\* The second request, a compactly written firing alert, was answered 200 and
\* the log holds its line in json.dumps' spacing after the first request's.
C19_Witness ==
    /\ pc = "finished"
    /\ served = 2
    /\ Answered(200)
    /\ Val(request).body = [doc |-> "firing_alert", form |-> "compact"]
    /\ Len(alerts_log) = 2
    /\ alerts_log[2].payload = [doc |-> "firing_alert", form |-> "default"]

\* C17: one update_pattern call makes at most one transition.  A call that
\* finds the pattern expired leaves Normal with duration 0 and starts no
\* incident in the same call; a call made during an incident either changes
\* nothing or ends the incident, so no incident is replaced by another; an
\* incident starts only in a call that found Normal unexpired.
C17_OneTransitionPerTick ==
    [][UpdateStep =>
        /\ (pattern_duration > 0 /\ clock - pattern_start_time > pattern_duration)
              => /\ current_pattern' = NORMAL
                 /\ pattern_duration' = 0
                 /\ last_effect' # "to_incident"
        /\ current_pattern # NORMAL
              => \/ PatternState' = PatternState
                 \/ current_pattern' = NORMAL /\ pattern_duration' = 0
        /\ current_pattern' # NORMAL
              => \/ PatternState' = PatternState
                 \/ /\ current_pattern = NORMAL
                    /\ clock - pattern_start_time > CalmPeriod
                    /\ ~(/\ pattern_duration > 0
                         /\ clock - pattern_start_time > pattern_duration)]_vars

\* An update_pattern call at t = 40 ended a pattern: 40 s is more than the
\* calm period after every start a pattern of at most 39 s can have had, and
\* still the call left Normal.
C17_Witness ==
    /\ last_op = "update_pattern"
    /\ last_effect = "to_normal"
    /\ current_pattern = NORMAL
    /\ pattern_duration = 0
    /\ clock = 40
    /\ pattern_start_time = 40

\* The pattern's end lies inside the time the model explores.
EndsBeforeMaxTime == pattern_start_time + pattern_duration < MaxTime

\* C18 as claimed: every incident ends.  From every state with a pattern other
\* than Normal, whatever calls produced it, update_pattern alone eventually
\* leads to Normal, provided it keeps being called and time keeps passing.
C18_EveryIncidentEnds ==
    (current_pattern # NORMAL /\ EndsBeforeMaxTime) ~> (current_pattern = NORMAL)

\* C18 amended: every incident with a positive duration ends.
C18_TimedIncidentEnds ==
    (current_pattern # NORMAL /\ pattern_duration > 0 /\ EndsBeforeMaxTime)
        ~> (current_pattern = NORMAL)

\* The first update_pattern call after the 20 s of an outage ended it.
C18_Witness ==
    /\ last_op = "update_pattern"
    /\ last_effect = "to_normal"
    /\ current_pattern = NORMAL
    /\ clock = 21
    /\ pattern_start_time = 21

====
